---- MODULE Spec2Model ----
(***************************************************************************)
(* A model of briefcase's remote debugger plugin base                      *)
(* (src/briefcase/debuggers/base.py) and of the Linux AppImage backend     *)
(* (src/briefcase/platforms/linux/appimage.py).                            *)
(*                                                                         *)
(* Python strings that the code inspects character by character (the       *)
(* debugger configuration string and everything cut out of it) are         *)
(* sequences of one-character strings.  An optional value (None or a       *)
(* value) is a sequence of length 0 or 1: None == <<>>, Some(v) == <<v>>.  *)
(***************************************************************************)
EXTENDS Integers, Sequences, FiniteSets, TLC

VARIABLES
    \* ---- debuggers/base.py ----
    input,        \* the remote debugger config string handed to the parser
    parsed,       \* outcome of remote_debugger_config_from_string(input)
    dbgClass,     \* the concrete plugin class being constructed
    dbgConfig,    \* the DebuggerConfig handed to BaseDebugger.__init__
    dbg,          \* outcome of BaseDebugger.__init__
    files,        \* the file system: path -> optional content
    wsf,          \* outcome of the last write_startup_file call
    \* ---- platforms/linux/appimage.py ----
    host_os,      \* tools.host_os
    use_docker,   \* the command's use_docker option, None until parsed
    pc,           \* where the command invocation stands
    cmdError,     \* the error that ended the invocation, "" if none
    nApps,        \* the number of applications of the invocation
    current,      \* the application being processed
    appState,     \* per application: how far its chain got
    appContext,   \* per application: the app context established
    verified,     \* the tools verified so far, in order
    events,       \* the stages completed without error, in order
    build         \* the last build_app call

vars ==
    <<input, parsed, dbgClass, dbgConfig, dbg, files, wsf,
      host_os, use_docker, pc, cmdError, nApps, current, appState, appContext,
      verified, events, build>>

-----------------------------------------------------------------------------
(* Bounds of the model *)

\* the configuration strings are concatenations of at most MaxPieces pieces
MaxPieces == 4

\* at most MaxApps applications in one command invocation
MaxApps == 2

\* at most MaxPlugins linuxdeploy plugins configured for an application
MaxPlugins == 2

-----------------------------------------------------------------------------
(* Optional values and strings *)

None == <<>>
Some(v) == <<v>>

EmptyStr == <<>>
ServerStr == <<"s", "e", "r", "v", "e", "r">>
ClientStr == <<"c", "l", "i", "e", "n", "t">>

\* The pieces the configuration strings are built from: the two separators,
\* digits, a sign, a letter and a mode word.
Vocabulary ==
    { <<",">>, <<":">>, <<"0">>, <<"5">>, <<"-">>, <<"a">>, ServerStr }

RECURSIVE Flatten(_)
Flatten(ps) == IF ps = <<>> THEN <<>> ELSE Head(ps) \o Flatten(Tail(ps))

Inputs ==
    { Flatten(ps) : ps \in UNION { [1..n -> Vocabulary] : n \in 0..MaxPieces } }

-----------------------------------------------------------------------------
(* str.split(sep) and int(str), as Python computes them *)

RECURSIVE SplitFrom(_, _, _, _, _)
SplitFrom(s, sep, i, cur, acc) ==
    IF i > Len(s) THEN Append(acc, cur)
    ELSE IF s[i] = sep
         THEN SplitFrom(s, sep, i + 1, <<>>, Append(acc, cur))
         ELSE SplitFrom(s, sep, i + 1, Append(cur, s[i]), acc)

\* s.split(sep): always at least one field; "".split(",") == [""]
Split(s, sep) == SplitFrom(s, sep, 1, <<>>, <<>>)

Digits == {"0", "1", "2", "3", "4", "5", "6", "7", "8", "9"}
WhiteSpace == {" ", "\t", "\n"}

DigitVal(c) ==
    CASE c = "0" -> 0 [] c = "1" -> 1 [] c = "2" -> 2 [] c = "3" -> 3
      [] c = "4" -> 4 [] c = "5" -> 5 [] c = "6" -> 6 [] c = "7" -> 7
      [] c = "8" -> 8 [] c = "9" -> 9

RECURSIVE Strip(_)
Strip(s) ==
    IF s = <<>> THEN s
    ELSE IF s[1] \in WhiteSpace THEN Strip(Tail(s))
    ELSE IF s[Len(s)] \in WhiteSpace THEN Strip(SubSeq(s, 1, Len(s) - 1))
    ELSE s

\* the digits of an int literal: digits, single underscores between digits
IsDigitRun(b) ==
    /\ b # <<>>
    /\ \A i \in 1..Len(b) : b[i] \in Digits \cup {"_"}
    /\ b[1] \in Digits
    /\ b[Len(b)] \in Digits
    /\ \A i \in 1..(Len(b) - 1) : ~(b[i] = "_" /\ b[i + 1] = "_")

RECURSIVE DigitRunVal(_, _)
DigitRunVal(b, acc) ==
    IF b = <<>> THEN acc
    ELSE IF b[1] = "_" THEN DigitRunVal(Tail(b), acc)
    ELSE DigitRunVal(Tail(b), 10 * acc + DigitVal(b[1]))

\* int(s) for a str s: [ok |-> TRUE, val |-> n], or ok = FALSE for ValueError
PyInt(s) ==
    LET t == Strip(s)
        signed == t # <<>> /\ t[1] \in {"+", "-"}
        body == IF signed THEN Tail(t) ELSE t
    IN  IF IsDigitRun(body)
        THEN [ok |-> TRUE,
              val |-> IF signed /\ t[1] = "-"
                      THEN 0 - DigitRunVal(body, 0)
                      ELSE DigitRunVal(body, 0)]
        ELSE [ok |-> FALSE, val |-> 0]

-----------------------------------------------------------------------------
(* remote_debugger_config_from_string *)

InvalidSpecMsg == "Invalid remote debugger specification"
InvalidPortMsg == "Invalid remote debugger port"

DebuggerConfig(mode, ip, port) == [mode |-> mode, ip |-> ip, port |-> port]

NoConfig == DebuggerConfig(None, None, None)

Returned(debugger, config) ==
    [status |-> "returned", exc |-> "", msg |-> "",
     debugger |-> debugger, config |-> config]

Raised(exc, msg) ==
    [status |-> "raised", exc |-> exc, msg |-> msg,
     debugger |-> None, config |-> NoConfig]

NotCalled ==
    [status |-> "none", exc |-> "", msg |-> "",
     debugger |-> None, config |-> NoConfig]

\* A variant that reports an empty name as absent.
split_fields_none_name(s) ==
    LET parts == Split(s, ",")
        name == IF parts[1] = EmptyStr THEN None ELSE Some(parts[1])
    IN  CASE Len(parts) = 1 ->
               [ok |-> TRUE, debugger |-> name,
                ip_and_port |-> None, mode |-> None]
          [] Len(parts) = 2 ->
               [ok |-> TRUE, debugger |-> name,
                ip_and_port |-> Some(parts[2]), mode |-> None]
          [] Len(parts) = 3 ->
               [ok |-> TRUE, debugger |-> name,
                ip_and_port |-> Some(parts[2]), mode |-> Some(parts[3])]
          [] OTHER ->
               [ok |-> FALSE, debugger |-> None,
                ip_and_port |-> None, mode |-> None]

\* lines 41-52: the comma level
split_fields(s) ==
    LET parts == Split(s, ",")
    IN  CASE Len(parts) = 1 ->
               [ok |-> TRUE, debugger |-> Some(parts[1]),
                ip_and_port |-> None, mode |-> None]
          [] Len(parts) = 2 ->
               [ok |-> TRUE, debugger |-> Some(parts[1]),
                ip_and_port |-> Some(parts[2]), mode |-> None]
          [] Len(parts) = 3 ->
               [ok |-> TRUE, debugger |-> Some(parts[1]),
                ip_and_port |-> Some(parts[2]), mode |-> Some(parts[3])]
          [] OTHER ->
               [ok |-> FALSE, debugger |-> None,
                ip_and_port |-> None, mode |-> None]

\* A variant that takes every group with a colon as ADDRESS:PORT.
split_ip_and_port_lenient(ip_and_port) ==
    IF ip_and_port = None
    THEN [ok |-> TRUE, ip |-> None, port |-> None]
    ELSE LET parts == Split(ip_and_port[1], ":")
         IN  IF Len(parts) = 1
             THEN [ok |-> TRUE, ip |-> None,
                   port |-> IF parts[1] = EmptyStr THEN None
                            ELSE Some(parts[1])]
             ELSE [ok |-> TRUE, ip |-> Some(parts[1]), port |-> Some(parts[2])]

\* lines 54-66: the colon level; port is still text here
split_ip_and_port(ip_and_port) ==
    IF ip_and_port = None
    THEN [ok |-> TRUE, ip |-> None, port |-> None]
    ELSE LET parts == Split(ip_and_port[1], ":")
         IN  CASE Len(parts) = 1 ->
                    [ok |-> TRUE, ip |-> None,
                     port |-> IF parts[1] = EmptyStr THEN None
                              ELSE Some(parts[1])]
               [] Len(parts) = 2 ->
                    [ok |-> TRUE, ip |-> Some(parts[1]),
                     port |-> Some(parts[2])]
               [] OTHER ->
                    [ok |-> FALSE, ip |-> None, port |-> None]

\* lines 68-72: the port text converted with int()
convert_port(port) ==
    IF port = None
    THEN [ok |-> TRUE, port |-> None]
    ELSE LET n == PyInt(port[1])
         IN  IF n.ok THEN [ok |-> TRUE, port |-> Some(n.val)]
             ELSE [ok |-> FALSE, port |-> None]

remote_debugger_config_from_string(remote_debugger_config) ==
    LET f == split_fields(remote_debugger_config)
        g == split_ip_and_port(f.ip_and_port)
        p == convert_port(g.port)
    IN  IF ~f.ok THEN Raised("BriefcaseCommandError", InvalidSpecMsg)
        ELSE IF ~g.ok THEN Raised("BriefcaseCommandError", InvalidSpecMsg)
        ELSE IF ~p.ok THEN Raised("BriefcaseCommandError", InvalidPortMsg)
        ELSE Returned(f.debugger, DebuggerConfig(f.mode, g.ip, p.port))

-----------------------------------------------------------------------------
(* BaseDebugger *)

STARTUP_MODULE == "_briefcase"

LocalhostStr == <<"l", "o", "c", "a", "l", "h", "o", "s", "t">>

\* class DebuggerMode(enum.StrEnum): the members are their string values
DebuggerMode == {ServerStr, ClientStr}

default_ip == LocalhostStr
default_port == 5678

\* The concrete plugin classes: each declares supported_modes (non-empty) and
\* a default_mode among them.
DebuggerClasses ==
    { c \in [supported_modes : (SUBSET DebuggerMode) \ {{}},
             default_mode : DebuggerMode] :
        c.default_mode \in c.supported_modes }

\* Python's "x or d" for an optional str / an optional int
StrOr(x, d) == IF x = None \/ x[1] = EmptyStr THEN d ELSE x[1]
IntOr(x, d) == IF x = None \/ x[1] = 0 THEN d ELSE x[1]

NoDebugger ==
    [status |-> "none", exc |-> "", mode |-> None, ip |-> None, port |-> None]

DebuggerRaised(exc) ==
    [status |-> "raised", exc |-> exc, mode |-> None, ip |-> None,
     port |-> None]

\* BaseDebugger.__init__: DebuggerMode(value) raises ValueError for a value
\* that is no member; the supported_modes check comes after it.
BaseDebugger_init(cls, config) ==
    LET m == StrOr(config.mode, cls.default_mode)
    IN  IF m \notin DebuggerMode THEN DebuggerRaised("ValueError")
        ELSE IF m \notin cls.supported_modes
             THEN DebuggerRaised("BriefcaseConfigError")
             ELSE [status |-> "constructed", exc |-> "", mode |-> Some(m),
                   ip |-> Some(StrOr(config.ip, default_ip)),
                   port |-> Some(IntOr(config.port, default_port))]

-----------------------------------------------------------------------------
(* The file system and write_startup_file *)

Folders == {"app", "site"}
FileNames == {STARTUP_MODULE \o ".py", STARTUP_MODULE \o ".pth", "other.txt"}
Paths == Folders \X FileNames

\* path / name
Join(folder, name) == <<folder, name>>

EmptyFileSystem == [p \in Paths |-> None]

InitialFileSystems ==
    { EmptyFileSystem,
      [EmptyFileSystem EXCEPT ![<<"site", "other.txt">>] = Some("keep")],
      [EmptyFileSystem EXCEPT ![<<"app", STARTUP_MODULE \o ".py">>] = Some("old"),
                              ![<<"site", STARTUP_MODULE \o ".pth">>] = Some("old"),
                              ![<<"app", "other.txt">>] = Some("keep")] }

\* what can go wrong in one call: nothing, or one of the opens or writes
IoOutcomes ==
    {"ok", "payload_open_fails", "payload_write_fails",
     "pth_open_fails", "pth_write_fails"}

\* create_startup_file is abstract: a concrete plugin writes its startup code,
\* which depends on the path mappings
create_startup_file(path_mappings) == "startup code " \o path_mappings

NoWrite ==
    [status |-> "none", exc |-> "", app_path |-> "", pth_folder_path |-> None,
     opened |-> <<>>, before |-> EmptyFileSystem, io |-> "ok"]


WriteResult(status, exc, fs, opened) ==
    [status |-> status, exc |-> exc, fs |-> fs, opened |-> opened]

\* A variant that puts the .pth file next to the startup module.
write_startup_file_in_app(fs, app_path, pth_folder_path, path_mappings, io) ==
    LET startup_code_path == Join(app_path, STARTUP_MODULE \o ".py")
        fs1 == [fs EXCEPT ![startup_code_path] = Some("")]
        fs2 == [fs1 EXCEPT ![startup_code_path] =
                               Some(create_startup_file(path_mappings))]
    IN  IF io = "payload_open_fails"
        THEN WriteResult("raised", "OSError", fs, <<>>)
        ELSE IF io = "payload_write_fails"
        THEN WriteResult("raised", "OSError", fs1, <<startup_code_path>>)
        ELSE IF pth_folder_path = None
        THEN WriteResult("returned", "", fs2, <<startup_code_path>>)
        ELSE LET startup_pth_path == Join(app_path, STARTUP_MODULE \o ".pth")
                 fs3 == [fs2 EXCEPT ![startup_pth_path] = Some("")]
                 fs4 == [fs3 EXCEPT ![startup_pth_path] =
                                        Some("import " \o STARTUP_MODULE)]
             IN  IF io = "pth_open_fails"
                 THEN WriteResult("raised", "OSError", fs2,
                                  <<startup_code_path>>)
                 ELSE IF io = "pth_write_fails"
                 THEN WriteResult("raised", "OSError", fs3,
                                  <<startup_code_path, startup_pth_path>>)
                 ELSE WriteResult("returned", "", fs4,
                                  <<startup_code_path, startup_pth_path>>)

\* BaseDebugger.write_startup_file on the file system fs.  open(.., "w")
\* creates or truncates the file; an error of open or of a write leaves the
\* with block as the exception it is.
write_startup_file(fs, app_path, pth_folder_path, path_mappings, io) ==
    LET startup_code_path == Join(app_path, STARTUP_MODULE \o ".py")
        fs1 == [fs EXCEPT ![startup_code_path] = Some("")]
        fs2 == [fs1 EXCEPT ![startup_code_path] =
                               Some(create_startup_file(path_mappings))]
    IN  IF io = "payload_open_fails"
        THEN WriteResult("raised", "OSError", fs, <<>>)
        ELSE IF io = "payload_write_fails"
        THEN WriteResult("raised", "OSError", fs1, <<startup_code_path>>)
        ELSE IF pth_folder_path = None
        THEN WriteResult("returned", "", fs2, <<startup_code_path>>)
        ELSE LET startup_pth_path ==
                     Join(pth_folder_path[1], STARTUP_MODULE \o ".pth")
                 fs3 == [fs2 EXCEPT ![startup_pth_path] = Some("")]
                 fs4 == [fs3 EXCEPT ![startup_pth_path] =
                                        Some("import " \o STARTUP_MODULE)]
             IN  IF io = "pth_open_fails"
                 THEN WriteResult("raised", "OSError", fs2,
                                  <<startup_code_path>>)
                 ELSE IF io = "pth_write_fails"
                 THEN WriteResult("raised", "OSError", fs3,
                                  <<startup_code_path, startup_pth_path>>)
                 ELSE WriteResult("returned", "", fs4,
                                  <<startup_code_path, startup_pth_path>>)

-----------------------------------------------------------------------------
(* The operations of debuggers/base.py *)

baseVars == <<input, parsed, dbgClass, dbgConfig, dbg, files, wsf>>

AnyClass == [supported_modes |-> {ServerStr}, default_mode |-> ServerStr]

\* the configurations a caller hands to a plugin class
CtorConfigs ==
    [mode : {None, Some(EmptyStr), Some(ServerStr), Some(ClientStr),
             Some(<<"a">>)},
     ip : {None, Some(EmptyStr), Some(<<"h">>)},
     port : {None, Some(0), Some(5)}]

BaseInit ==
    /\ input = EmptyStr
    /\ parsed = NotCalled
    /\ dbgClass = AnyClass
    /\ dbgConfig = NoConfig
    /\ dbg = NoDebugger
    /\ files = EmptyFileSystem
    /\ wsf = NoWrite

\* the parser applied to the input string
Parse ==
    /\ parsed.status = "none"
    /\ parsed' = remote_debugger_config_from_string(input)
    /\ UNCHANGED <<input, dbgClass, dbgConfig, dbg, files, wsf>>

\* cls(console, config)
Construct(cls, config) ==
    /\ dbg.status = "none"
    /\ dbgClass' = cls
    /\ dbgConfig' = config
    /\ dbg' = BaseDebugger_init(cls, config)
    /\ UNCHANGED <<input, parsed, files, wsf>>

\* debugger.write_startup_file(app_path, pth_folder_path, path_mappings)
WriteStartupFile(app_path, pth_folder_path, path_mappings, io) ==
    /\ dbg.status = "constructed"
    /\ wsf.status = "none"
    /\ io \in {"pth_open_fails", "pth_write_fails"} => pth_folder_path # None
    /\ LET r == write_startup_file(files, app_path, pth_folder_path,
                                   path_mappings, io)
       IN  /\ files' = r.fs
           /\ wsf' = [status |-> r.status, exc |-> r.exc,
                      app_path |-> app_path,
                      pth_folder_path |-> pth_folder_path,
                      opened |-> r.opened, before |-> files, io |-> io]
    /\ UNCHANGED <<input, parsed, dbgClass, dbgConfig, dbg>>


-----------------------------------------------------------------------------
(* platforms/linux/appimage.py: the verification stages *)

HostOses == {"Linux", "Darwin", "Windows"}

\* LinuxAppImagePassiveMixin.supported_host_os
supported_host_os == {"Darwin", "Linux"}

\* The verify_host that LinuxAppImageMixin.verify_host reaches through
\* super(): the host OS is checked against the command's allow-list.
base_verify_host(os) ==
    IF os \notin supported_host_os THEN "UnsupportedHostError" ELSE ""

\* A variant that applies the Linux-only check to every backend.
verify_host_always_linux(docker, os) ==
    IF base_verify_host(os) # "" THEN base_verify_host(os)
    ELSE IF os # "Linux" THEN "UnsupportedHostError"
    ELSE ""

\* LinuxAppImageMixin.verify_host: the exception raised, "" if none
verify_host(docker, os) ==
    IF base_verify_host(os) # "" THEN base_verify_host(os)
    ELSE IF ~docker /\ os # "Linux" THEN "UnsupportedHostError"
    ELSE ""

ToolNames == {"linuxdeploy", "docker"}

\* A variant that never verifies Docker.
verify_tools_without_docker(docker, missing) ==
    IF "linuxdeploy" \in missing
    THEN [exc |-> "MissingDependency", tool |-> "linuxdeploy",
          verified |-> <<>>]
    ELSE [exc |-> "", tool |-> "", verified |-> <<"linuxdeploy">>]

\* LinuxAppImageMostlyPassiveMixin.verify_tools, with the tools in `missing`
\* not usable on this host: LinuxDeploy.verify (through super()), then
\* Docker.verify when use_docker.
verify_tools(docker, missing) ==
    IF "linuxdeploy" \in missing
    THEN [exc |-> "MissingDependency", tool |-> "linuxdeploy",
          verified |-> <<>>]
    ELSE IF ~docker
    THEN [exc |-> "", tool |-> "", verified |-> <<"linuxdeploy">>]
    ELSE IF "docker" \in missing
    THEN [exc |-> "MissingDependency", tool |-> "docker",
          verified |-> <<"linuxdeploy">>]
    ELSE [exc |-> "", tool |-> "", verified |-> <<"linuxdeploy", "docker">>]

\* A variant that goes on after a failed context verification.
verify_app_tools_ignore_failure(docker, contextOk) ==
    [exc |-> "", context |-> IF docker THEN "docker" ELSE "native"]

\* LinuxAppImageMostlyPassiveMixin.verify_app_tools: DockerAppContext.verify
\* or NativeAppContext.verify, either of which may fail.
verify_app_tools(docker, contextOk) ==
    IF ~contextOk
    THEN [exc |-> "BriefcaseCommandError", context |-> "none"]
    ELSE [exc |-> "", context |-> IF docker THEN "docker" ELSE "native"]

-----------------------------------------------------------------------------
(* platforms/linux/appimage.py: build_app *)

AppName(a) == "app" \o ToString(a)
AppVersion(a) == "1.0." \o ToString(a)

\* tools.host_arch
host_arch == "x86_64"

\* The linuxdeploy plugins an application may configure, with the variables
\* each declares (plugin.env) and where it is installed (plugin.file_path).
PluginNames == {"gtk", "qt", "arch", "path"}

EmptyEnv == [k \in {} |-> ""]

PluginEnv(name) ==
    CASE name = "gtk" -> [k \in {"DEPLOY_GTK_VERSION"} |-> "3"]
      [] name = "qt" -> EmptyEnv
      [] name = "arch" ->
            [k \in {"ARCH", "DEPLOY_GTK_VERSION"} |->
                IF k = "ARCH" THEN "i386" ELSE "4"]
      [] name = "path" -> [k \in {"PATH"} |-> <<"/opt/own/bin">>]

PluginFilePath(name) == "/plugins/" \o name

\* verify_plugins returns a dict keyed by plugin: no plugin twice
PluginLists ==
    { ps \in UNION { [1..n -> PluginNames] : n \in 0..MaxPlugins } :
        \A i, j \in 1..Len(ps) : i # j => ps[i] # ps[j] }

\* dict.update
Update(env, d) ==
    [k \in DOMAIN env \cup DOMAIN d |-> IF k \in DOMAIN d THEN d[k] ELSE env[k]]

\* lines 285-286: for plugin in plugins.values(): env.update(plugin.env)
RECURSIVE UpdateAll(_, _)
UpdateAll(env, plugins) ==
    IF plugins = <<>> THEN env
    ELSE UpdateAll(Update(env, PluginEnv(Head(plugins))), Tail(plugins))

\* lines 289-292: the plugins' locations, then the context's own PATH
PluginPath(plugins, base_path) ==
    [i \in 1..Len(plugins) |-> PluginFilePath(plugins[i])] \o <<base_path>>

\* lines 302-320: the variables build_app sets itself
StaticEnv(version, deep_debug) ==
    [k \in {"LINUXDEPLOY_OUTPUT_VERSION", "DISABLE_COPYRIGHT_FILES_DEPLOYMENT",
            "APPIMAGE_EXTRACT_AND_RUN", "ARCH"}
           \cup (IF deep_debug THEN {"DEBUG"} ELSE {}) |->
        CASE k = "LINUXDEPLOY_OUTPUT_VERSION" -> version
          [] k = "ARCH" -> host_arch
          [] OTHER -> "1"]

\* A variant that sets its own variables first and lets the plugins override.
build_env_static_first(version, hasPlugins, plugins, base_path, deep_debug) ==
    IF hasPlugins
    THEN Update(UpdateAll(StaticEnv(version, deep_debug), plugins),
                [k \in {"PATH"} |-> PluginPath(plugins, base_path)])
    ELSE StaticEnv(version, deep_debug)

\* The env handed to the linuxdeploy run: plugin variables, then PATH (both
\* only when plugins are configured), then build_app's own variables.
build_env(version, hasPlugins, plugins, base_path, deep_debug) ==
    Update(IF hasPlugins
           THEN Update(UpdateAll(EmptyEnv, plugins),
                       [k \in {"PATH"} |-> PluginPath(plugins, base_path)])
           ELSE EmptyEnv,
           StaticEnv(version, deep_debug))

Call(name, exit) == [name |-> name, exit |-> exit]

\* A variant that runs linuxdeploy without check=True.
run_linuxdeploy_unchecked(app_name, runExit, chmodOk) ==
    [calls |-> <<Call("run", runExit), Call("chmod", 0)>>,
     exc |-> IF chmodOk THEN "" ELSE "OSError", exc_app |-> None]

\* lines 337-361: app_context.run(..., check=True), then os.chmod; a
\* CalledProcessError becomes the BriefcaseCommandError naming the app.
run_linuxdeploy(app_name, runExit, chmodOk) ==
    IF runExit # 0
    THEN [calls |-> <<Call("run", runExit)>>,
          exc |-> "BriefcaseCommandError", exc_app |-> Some(app_name)]
    ELSE [calls |-> <<Call("run", 0), Call("chmod", 0)>>,
          exc |-> IF chmodOk THEN "" ELSE "OSError", exc_app |-> None]

\* what app_context.check_output(["/bin/sh", "-c", "echo $PATH"]) prints
ContextPath(context) ==
    IF context = "docker" THEN "/docker/usr/bin" ELSE "/usr/bin"

NoBuild ==
    [status |-> "none", app |-> 0, calls |-> <<>>, env |-> None, exc |-> "",
     exc_app |-> None, hasPlugins |-> FALSE, plugins |-> <<>>,
     deep_debug |-> FALSE, base_path |-> ""]

BuildRecord(a, calls, env, exc, exc_app, hasPlugins, plugins, dd, bp) ==
    [status |-> IF exc = "" THEN "returned" ELSE "raised", app |-> a,
     calls |-> calls, env |-> env, exc |-> exc, exc_app |-> exc_app,
     hasPlugins |-> hasPlugins, plugins |-> plugins, deep_debug |-> dd,
     base_path |-> bp]

PluginOutcomes == {"no_attribute", "verified", "verify_fails"}

\* LinuxAppImageBuildCommand.build_app for application a in app context
\* `context`.  pluginOutcome: app.linuxdeploy_plugins is missing
\* (AttributeError, caught), or verify_plugins returns `plugins`, or it fails.
build_app(a, context, pluginOutcome, plugins, coExit, dd, runExit, chmodOk) ==
    LET base_path == ContextPath(context)
        hasPlugins == pluginOutcome = "verified"
        used == IF hasPlugins THEN plugins ELSE <<>>
        env == build_env(AppVersion(a), hasPlugins, used, base_path, dd)
        fin == run_linuxdeploy(AppName(a), runExit, chmodOk)
        pre == IF pluginOutcome = "no_attribute" THEN <<>>
               ELSE IF pluginOutcome = "verify_fails"
               THEN <<Call("verify_plugins", 1)>>
               ELSE <<Call("verify_plugins", 0), Call("check_output", coExit)>>
    IN  IF pluginOutcome = "verify_fails"
        THEN BuildRecord(a, pre, None, "MissingToolError", None, FALSE, <<>>,
                         dd, "")
        ELSE IF hasPlugins /\ coExit # 0
        THEN BuildRecord(a, pre, None, "CalledProcessError", None, FALSE,
                         <<>>, dd, "")
        ELSE BuildRecord(a, pre \o fin.calls, Some(env), fin.exc, fin.exc_app,
                         hasPlugins, used, dd,
                         IF hasPlugins THEN base_path ELSE "")


-----------------------------------------------------------------------------
(* One invocation of an AppImage command over its applications *)

appVars ==
    <<host_os, use_docker, pc, cmdError, nApps, current, appState, appContext,
      verified, events, build>>

Apps == 1..nApps

Event(stage, a, fact, raised) ==
    [stage |-> stage, app |-> a, fact |-> fact, raised |-> raised]

\* The command's loop over its applications: after application a, whether
\* it was built or failed one of its own stages, the next one is processed.
AfterApp(a) == IF a + 1 > nApps THEN "done" ELSE "verify_app_tools"

AppInit ==
    /\ host_os \in HostOses
    /\ use_docker = None
    /\ pc = "parse_options"
    /\ cmdError = ""
    /\ nApps \in 1..MaxApps
    /\ current = 0
    /\ appState = [a \in 1..nApps |-> "pending"]
    /\ appContext = [a \in 1..nApps |-> "none"]
    /\ verified = <<>>
    /\ events = <<>>
    /\ build = NoBuild

AppIdle ==
    /\ host_os = "Linux"
    /\ use_docker = None
    /\ pc = "idle"
    /\ cmdError = ""
    /\ nApps = 0
    /\ current = 0
    /\ appState = <<>>
    /\ appContext = <<>>
    /\ verified = <<>>
    /\ events = <<>>
    /\ build = NoBuild

\* parse_options: use_docker is True unless --no-docker was given
ParseOptions(docker) ==
    /\ pc = "parse_options"
    /\ use_docker' = Some(docker)
    /\ pc' = "verify_host"
    /\ UNCHANGED <<host_os, cmdError, nApps, current, appState, appContext,
                   verified, events, build>>
    /\ UNCHANGED baseVars

\* the commands whose options a new command may clone
Commands == [use_docker : BOOLEAN]

\* clone_options: the command takes over use_docker of the command that
\* created it, in place of parsing options of its own
CloneOptions(command) ==
    /\ pc = "parse_options"
    /\ use_docker' = Some(command.use_docker)
    /\ pc' = "verify_host"
    /\ UNCHANGED <<host_os, cmdError, nApps, current, appState, appContext,
                   verified, events, build>>
    /\ UNCHANGED baseVars

VerifyHost ==
    /\ pc = "verify_host"
    /\ LET e == verify_host(use_docker[1], host_os)
       IN  /\ pc' = IF e = "" THEN "verify_tools" ELSE "failed"
           /\ cmdError' = e
           /\ events' = Append(events,
                               Event("verify_host", 0, TRUE, e # ""))
    /\ UNCHANGED <<host_os, use_docker, nApps, current, appState, appContext,
                   verified, build>>
    /\ UNCHANGED baseVars

VerifyTools(missing) ==
    /\ pc = "verify_tools"
    /\ LET r == verify_tools(use_docker[1], missing)
       IN  /\ pc' = IF r.exc = "" THEN "verify_app_tools" ELSE "failed"
           /\ cmdError' = r.exc
           /\ verified' = r.verified
           /\ current' = IF r.exc = "" THEN 1 ELSE current
           /\ events' = Append(events,
                               Event("verify_tools", 0, r.exc = "",
                                     r.exc # ""))
    /\ UNCHANGED <<host_os, use_docker, nApps, appState, appContext, build>>
    /\ UNCHANGED baseVars

VerifyAppTools(contextOk) ==
    /\ pc = "verify_app_tools"
    /\ LET r == verify_app_tools(use_docker[1], contextOk)
       IN  /\ appState' = [appState EXCEPT ![current] =
                              IF r.exc = "" THEN "AppVerified"
                              ELSE "verify_failed"]
           /\ appContext' = [appContext EXCEPT ![current] = r.context]
           /\ pc' = IF r.exc = "" THEN "build_app" ELSE AfterApp(current)
           /\ current' = IF r.exc = "" THEN current ELSE current + 1
           /\ events' = Append(events,
                               Event("verify_app_tools", current, contextOk,
                                     r.exc # ""))
    /\ UNCHANGED <<host_os, use_docker, cmdError, nApps, verified, build>>
    /\ UNCHANGED baseVars

BuildApp(pluginOutcome, plugins, coExit, deep_debug, runExit, chmodOk) ==
    /\ pc = "build_app"
    \* choices that this call never consults are left at one value
    /\ pluginOutcome # "verified" => plugins = <<>> /\ coExit = 0
    /\ (pluginOutcome = "verify_fails" \/ coExit # 0) =>
           runExit = 0 /\ chmodOk /\ ~deep_debug
    /\ runExit # 0 => chmodOk
    /\ LET b == build_app(current, appContext[current], pluginOutcome,
                          plugins, coExit, deep_debug, runExit, chmodOk)
       IN  /\ build' = b
           /\ appState' = [appState EXCEPT ![current] =
                              IF b.exc = "" THEN "built" ELSE "build_failed"]
           /\ events' = Append(events,
                               Event("build_app", current, b.exc = "",
                                     b.exc # ""))
    /\ pc' = AfterApp(current)
    /\ current' = current + 1
    /\ UNCHANGED <<host_os, use_docker, cmdError, nApps, appContext, verified>>
    /\ UNCHANGED baseVars

-----------------------------------------------------------------------------
(* Specifications *)

\* the parser on every configuration string of Inputs, and a plugin
\* constructed from the config it returns
ParseInit ==
    /\ input \in Inputs
    /\ parsed = NotCalled
    /\ dbgClass = AnyClass
    /\ dbgConfig = NoConfig
    /\ dbg = NoDebugger
    /\ files = EmptyFileSystem
    /\ wsf = NoWrite
    /\ AppIdle

ParseNext ==
    \/ Parse /\ UNCHANGED appVars
    \/ \E cls \in DebuggerClasses :
          /\ parsed.status = "returned"
          /\ Construct(cls, parsed.config)
          /\ UNCHANGED appVars

SpecParse == ParseInit /\ [][ParseNext]_vars

\* a plugin constructed from a configuration, then installed
DebuggerInit ==
    /\ input = EmptyStr
    /\ parsed = NotCalled
    /\ dbgClass = AnyClass
    /\ dbgConfig = NoConfig
    /\ dbg = NoDebugger
    /\ files \in InitialFileSystems
    /\ wsf = NoWrite
    /\ AppIdle

DebuggerNext ==
    \/ \E cls \in DebuggerClasses, config \in CtorConfigs :
          Construct(cls, config) /\ UNCHANGED appVars
    \/ \E app_path \in Folders,
          pth_folder_path \in {None} \cup {Some(f) : f \in Folders},
          path_mappings \in {"", "/src=/app"}, io \in IoOutcomes :
          WriteStartupFile(app_path, pth_folder_path, path_mappings, io)
          /\ UNCHANGED appVars

SpecDebugger == DebuggerInit /\ [][DebuggerNext]_vars

\* one invocation of the AppImage build command
Init == BaseInit /\ AppInit

Next ==
    \/ \E docker \in BOOLEAN : ParseOptions(docker)
    \/ \E command \in Commands : CloneOptions(command)
    \/ VerifyHost
    \/ \E missing \in SUBSET ToolNames : VerifyTools(missing)
    \/ \E contextOk \in BOOLEAN : VerifyAppTools(contextOk)
    \/ \E pluginOutcome \in PluginOutcomes, plugins \in PluginLists,
          coExit \in {0, 1}, deep_debug \in BOOLEAN, runExit \in {0, 1},
          chmodOk \in BOOLEAN :
          BuildApp(pluginOutcome, plugins, coExit, deep_debug, runExit,
                   chmodOk)

Spec == Init /\ [][Next]_vars


-----------------------------------------------------------------------------
(* Properties of BaseDebugger.__init__ (checked under SpecDebugger) *)

\* the mode a construction resolves: config.mode, or default_mode when
\* config.mode is absent or empty
ResolvedMode ==
    IF dbgConfig.mode = None \/ dbgConfig.mode[1] = EmptyStr
    THEN dbgClass.default_mode
    ELSE dbgConfig.mode[1]

\* C1: a construction whose resolved mode is not in the plugin's
\* supported_modes, whatever string it is, fails with BriefcaseConfigError
\* and nothing else; and a constructed instance has a supported mode.
C1_UnsupportedModeIsConfigError ==
    dbg.status # "none" =>
        /\ ResolvedMode \notin dbgClass.supported_modes =>
               dbg.status = "raised" /\ dbg.exc = "BriefcaseConfigError"
        /\ dbg.status = "constructed" =>
               dbg.mode[1] \in dbgClass.supported_modes

-----------------------------------------------------------------------------
(* Properties of remote_debugger_config_from_string (checked under          *)
(* SpecParse)                                                               *)

CountOf(s, c) == Cardinality({i \in 1..Len(s) : s[i] = c})

Least(S) == CHOOSE i \in S : \A j \in S : i <= j

\* the text between the first comma of s and the next one (or the end)
GroupText(s) ==
    LET commas == {i \in 1..Len(s) : s[i] = ","}
        first == Least(commas)
        later == commas \ {first}
    IN  SubSeq(s, first + 1, IF later = {} THEN Len(s) ELSE Least(later) - 1)

IsInvalidSpec(r) ==
    r.status = "raised" /\ r.exc = "BriefcaseCommandError"
        /\ r.msg = "Invalid remote debugger specification"

IsInvalidPort(r) ==
    r.status = "raised" /\ r.exc = "BriefcaseCommandError"
        /\ r.msg = "Invalid remote debugger port"

MalformedSpec(s) ==
    LET nFields == CountOf(s, ",") + 1
    IN  \/ nFields \notin {1, 2, 3}
        \/ /\ nFields >= 2
           /\ CountOf(GroupText(s), ":") + 1 \notin {1, 2}

\* C6: the parser fails with the invalid-specification error exactly when
\* the string has more than 3 comma-separated fields or its address/port
\* group has more than 2 colon-separated sub-fields; every other string
\* gives a (name, config) pair or the invalid-port error.
C6_InvalidSpecExactlyOnFieldCounts ==
    parsed.status # "none" =>
        /\ IsInvalidSpec(parsed) <=> MalformedSpec(input)
        /\ ~MalformedSpec(input) =>
               parsed.status = "returned" \/ IsInvalidPort(parsed)

\* a group with three sub-fields was rejected
C6_Witness ==
    /\ IsInvalidSpec(parsed)
    /\ CountOf(input, ",") = 1
    /\ CountOf(input, ":") = 2

\* C7: a returned config whose port is present has a port >= 0: a port text
\* that is no non-negative integer fails with the invalid-port error.
C7_ReturnedPortIsNonNegative ==
    (parsed.status = "returned" /\ parsed.config.port # None) =>
        parsed.config.port[1] >= 0

\* C8, as claimed: the empty string parses to (None, config) with no name
\* and no mode, address or port.
C8_EmptyStringNameIsNone ==
    (input = EmptyStr /\ parsed.status # "none") =>
        parsed = Returned(None, DebuggerConfig(None, None, None))

\* C8, amended: the empty string parses to ("", config): the name is the
\* empty string, and mode, address and port are all None.
C8_EmptyStringNameIsEmptyString ==
    (input = EmptyStr /\ parsed.status # "none") =>
        /\ parsed.status = "returned"
        /\ parsed.debugger = Some(EmptyStr)
        /\ parsed.config.mode = None
        /\ parsed.config.ip = None
        /\ parsed.config.port = None

C8_Witness == input = EmptyStr /\ parsed.status = "returned"

-----------------------------------------------------------------------------
(* Properties of write_startup_file (checked under SpecDebugger) *)

\* C9: a write_startup_file that returns has opened for writing exactly
\* app_path/_briefcase.py and, when an autoload folder is given,
\* folder/_briefcase.pth holding "import _briefcase", and has left every other
\* file as it was; a failed open or write ends the call with the I/O error.
C9_InstallWritesExactlyItsFiles ==
    wsf.status # "none" =>
        LET payload == <<wsf.app_path, "_briefcase.py">>
            expected ==
                IF wsf.pth_folder_path = None THEN {payload}
                ELSE {payload, <<wsf.pth_folder_path[1], "_briefcase.pth">>}
            opened == {wsf.opened[i] : i \in DOMAIN wsf.opened}
        IN  /\ wsf.status = "returned" =>
                /\ opened = expected
                /\ Len(wsf.opened) = Cardinality(expected)
                /\ files[payload] # None
                /\ wsf.pth_folder_path # None =>
                       files[<<wsf.pth_folder_path[1], "_briefcase.pth">>]
                           = Some("import _briefcase")
                /\ \A p \in Paths \ expected : files[p] = wsf.before[p]
            /\ wsf.io # "ok" => wsf.status = "raised" /\ wsf.exc = "OSError"

\* installed with an autoload folder other than the app folder, next to
\* files that were there before
C9_Witness ==
    /\ wsf.status = "returned"
    /\ wsf.pth_folder_path # None
    /\ wsf.pth_folder_path[1] # wsf.app_path
    /\ Len(wsf.opened) = 2
    /\ \E p \in Paths : wsf.before[p] = Some("keep")

-----------------------------------------------------------------------------
(* Properties of the AppImage command (checked under Spec) *)

HostChecked == events # <<>>
HostRaised == events[1].raised

CallsNamed(name) == {i \in DOMAIN build.calls : build.calls[i].name = name}

\* C3: when the linuxdeploy run exits non-zero, build_app raises the
\* BriefcaseCommandError naming the app and chmod is never attempted; chmod
\* is attempted at most once, only after a run that exited 0, and exactly
\* once when build_app returns.
C3_FailedRunRaisesAndSkipsChmod ==
    build.status # "none" =>
        /\ \A i \in CallsNamed("run") :
               build.calls[i].exit # 0 =>
                   /\ build.exc = "BriefcaseCommandError"
                   /\ build.exc_app = Some(AppName(build.app))
                   /\ CallsNamed("chmod") = {}
        /\ Cardinality(CallsNamed("chmod")) <= 1
        /\ \A j \in CallsNamed("chmod") :
               \E i \in CallsNamed("run") : i < j /\ build.calls[i].exit = 0
        /\ build.status = "returned" => Cardinality(CallsNamed("chmod")) = 1

C3_Witness ==
    /\ build.status = "raised"
    /\ \E i \in CallsNamed("run") : build.calls[i].exit # 0

StaticKeys ==
    {"LINUXDEPLOY_OUTPUT_VERSION", "DISABLE_COPYRIGHT_FILES_DEPLOYMENT",
     "APPIMAGE_EXTRACT_AND_RUN", "ARCH"}
        \cup (IF build.deep_debug THEN {"DEBUG"} ELSE {})

Declaring(k) ==
    {i \in DOMAIN build.plugins : k \in DOMAIN PluginEnv(build.plugins[i])}

Greatest(S) == CHOOSE i \in S : \A j \in S : j <= i

LastDeclared(k) == PluginEnv(build.plugins[Greatest(Declaring(k))])[k]

\* C4, as claimed: a variable set both by build_app itself and by a plugin
\* reaches linuxdeploy with the plugin's value.
C4_PluginOverridesStatic ==
    build.env # None =>
        \A k \in StaticKeys :
            Declaring(k) # {} => build.env[1][k] = LastDeclared(k)

\* C4, amended: the env of the linuxdeploy run is, later overriding earlier,
\* the plugins' variables in discovery order, then (when plugins are
\* configured) the computed PATH, then build_app's own variables; a variable
\* set both by build_app and by a plugin has build_app's value.
C4_StaticOverridesPlugins ==
    build.env # None =>
        LET env == build.env[1]
            declared ==
                UNION {DOMAIN PluginEnv(build.plugins[i]) :
                          i \in DOMAIN build.plugins}
        IN  /\ DOMAIN env =
                   StaticKeys \cup declared
                       \cup (IF build.hasPlugins THEN {"PATH"} ELSE {})
            /\ \A k \in DOMAIN env :
                   IF k \in StaticKeys
                   THEN env[k] =
                          CASE k = "LINUXDEPLOY_OUTPUT_VERSION" ->
                                  AppVersion(build.app)
                            [] k = "ARCH" -> "x86_64"
                            [] OTHER -> "1"
                   ELSE IF k = "PATH"
                   THEN env[k] =
                          [i \in DOMAIN build.plugins |->
                              "/plugins/" \o build.plugins[i]]
                              \o <<build.base_path>>
                   ELSE env[k] = LastDeclared(k)

\* a plugin declared ARCH, and two plugins declared the same variable
C4_Witness ==
    /\ build.env # None
    /\ Declaring("ARCH") # {}
    /\ Cardinality(Declaring("DEPLOY_GTK_VERSION")) = 2

\* C5: every non-zero exit of a process build_app issues through the app
\* context, the check_output query as well as the linuxdeploy run, ends
\* build_app with the BriefcaseCommandError naming the app, and the call is
\* issued once.
C5_EveryNonZeroExitIsWrapped ==
    build.status # "none" =>
        /\ \A i \in CallsNamed("check_output") \cup CallsNamed("run") :
               build.calls[i].exit # 0 =>
                   /\ build.exc = "BriefcaseCommandError"
                   /\ build.exc_app = Some(AppName(build.app))
        /\ Cardinality(CallsNamed("check_output")) <= 1
        /\ Cardinality(CallsNamed("run")) <= 1

StagePassed(i, stage, a) ==
    /\ events[i].stage = stage
    /\ events[i].app = a
    /\ events[i].fact
    /\ ~events[i].raised

DockerVerified == \E i \in DOMAIN verified : verified[i] = "docker"

ContextEstablished(a) == appState[a] \in {"AppVerified", "built", "build_failed"}

\* C11: use_docker is set once, by parse_options or clone_options, and no
\* stage changes it afterwards; every application whose verify_app_tools
\* completed has exactly one app context, the Docker one if and only if
\* Docker.verify ran in the tools stage of the invocation (that is, if and
\* only if use_docker), the native one otherwise.
C11_ContextFixedByUseDocker ==
    /\ [][use_docker' # use_docker => pc = "parse_options" /\ use_docker = None]_vars
    /\ [](\A a \in Apps :
            /\ ContextEstablished(a) =>
                   /\ appContext[a] \in {"docker", "native"}
                   /\ appContext[a] = "docker" <=> DockerVerified
                   /\ appContext[a] = "docker" <=> use_docker = Some(TRUE)
            /\ ~ContextEstablished(a) => appContext[a] = "none")

\* with use_docker, two applications both got the Docker context
C11_Witness ==
    /\ nApps >= 2
    /\ use_docker = Some(TRUE)
    /\ DockerVerified
    /\ appContext[1] = "docker"
    /\ appContext[2] = "docker"


-----------------------------------------------------------------------------
(* Parse, then construct (checked under SpecParse) *)

\* C12: a plugin constructed from the config of a string that gives a port
\* (including "0") has that port; default_port is used only when the string
\* gives none.
C12_ExplicitPortIsKept ==
    (parsed.status = "returned" /\ dbg.status = "constructed") =>
        /\ parsed.config.port # None => dbg.port = parsed.config.port
        /\ dbg.port = Some(5678) => parsed.config.port \in {None, Some(5678)}

====
